---- MODULE Spec2Model ----
(***************************************************************************)
(* Browser-side logic of the heart-disease risk form:                      *)
(*   - static/js/script.js     tabbed form: panels, validation, smoker     *)
(*   - static/js/resScript.js  slider limits, live labels, update cycle    *)
(* Each event handler is one action.  The specifications share the         *)
(* variables: Spec (the tabbed form), SpecField (validateInput on one      *)
(* field in every state it can be given), SpecSlider (sliders and the      *)
(* update cycle), SpecSliderLive (the same, every awaited promise          *)
(* settling) and SpecKey (key resolution).                                 *)
(***************************************************************************)
EXTENDS Integers, Sequences, FiniteSets, TLC

VARIABLES
  active,      \* [panel -> BOOLEAN]   panel.classList contains "active"
  ariaHidden,  \* [panel -> BOOLEAN]   panel aria-hidden
  tabActive,   \* [target -> BOOLEAN]  class "active" of the tab with that data-target
  tabSelected, \* [target -> BOOLEAN]  aria-selected of that tab
  focus,       \* the field holding the focus, NoField if none of the form's fields
  fields,      \* [field -> record]    the inputs and selects of the form
  last,        \* the handler that ran last and what it observed
  sliders,     \* [slider -> record]   the input.slider controls of the results page
  raf,         \* the sliders with a requested animation frame not yet run
  btn,         \* the update button: [disabled, textContent]
  reqs,        \* the update handlers suspended at an await, oldest first
  page,        \* [base, result, suggestions]: BASE_INPUTS defined, result text, list
  slast,       \* the slider-page handler that ran last and whether it alerted
  raw,         \* a raw feature key (a sequence of characters)
  canon        \* the keys computed from it

formVars == <<active, ariaHidden, tabActive, tabSelected, focus, fields, last>>
sliderVars == <<sliders, raf, btn, reqs, page, slast>>
keyVars == <<raw, canon>>
vars == <<formVars, sliderVars, keyVars>>

(***************************************************************************)
(* Markup of the form.                                                     *)
(***************************************************************************)
NumPanels == 2
panels == 1..NumPanels

\* A data-target that is the id of no panel.
NoPanel == 0
Targets == panels \cup {NoPanel}
tabs == Targets

FieldIds == <<"age", "sex", "currentSmoker", "cigsPerDay">>
FieldKind == <<"number", "select", "select", "number">>
FieldPanel == <<1, 1, 2, 2>>
FieldMin == <<"18", "", "", "0">>
FieldMax == <<"100", "", "", "60">>
Fields == 1..Len(FieldIds)
NoField == 0

smokerStatusEl == CHOOSE f \in Fields : FieldIds[f] = "currentSmoker"
cigsPerDayEl == CHOOSE f \in Fields : FieldIds[f] = "cigsPerDay"

\* Texts are sequences of strings, so that a bound can be interpolated.
Absent == <<"undefined">>
Hints == {<<>>, <<"per day">>}
Truthy(t) == t # Absent /\ t # <<>>

Flags == {"valueMissing", "rangeUnderflow", "rangeOverflow", "badInput", "stepMismatch"}

\* The ValidityState the browser keeps for a control: none for a disabled
\* control, valueMissing exactly for a required empty one, range and step
\* flags only for a value that is there.
ConsistentValidity(el, fl) ==
  IF el.disabled THEN fl = {}
  ELSE /\ ("valueMissing" \in fl) <=> (el.required /\ el.value = "")
       /\ el.kind = "select" => fl \subseteq {"valueMissing"}
       /\ el.value = "" => fl \subseteq {"valueMissing", "badInput"}
       /\ el.value # "" => fl \subseteq {"rangeUnderflow", "rangeOverflow", "stepMismatch"}

\* The validity after the script changed disabled, required or value.
Revalidate(el) ==
  IF el.disabled THEN [el EXCEPT !.validity = {}]
  ELSE LET keep == IF el.value = "" THEN el.validity \cap {"badInput"}
                   ELSE el.validity \cap {"rangeUnderflow", "rangeOverflow", "stepMismatch"}
           miss == IF el.required /\ el.value = "" THEN {"valueMissing"} ELSE {}
       IN [el EXCEPT !.validity = keep \cup miss]

(***************************************************************************)
(* showError / clearError / validateInput                                  *)
(***************************************************************************)
showError(el, message) ==
  IF el.hasSmall
  THEN [el EXCEPT !.invalid = TRUE,
                  !.originalText = IF ~Truthy(el.originalText) THEN el.innerText ELSE @,
                  !.innerText = message,
                  !.errorMessage = TRUE]
  ELSE [el EXCEPT !.invalid = TRUE]

clearError(el) ==
  IF el.hasSmall /\ Truthy(el.originalText)
  THEN [el EXCEPT !.invalid = FALSE,
                  !.innerText = el.originalText,
                  !.errorMessage = FALSE]
  ELSE [el EXCEPT !.invalid = FALSE]

MsgRequired == <<"This field is required.">>
\* Mutant: the minimum message interpolates the maximum.
MsgMinOfMax(el) == <<"Value must be at least ", el.max, ".">>

MsgMin(el) == <<"Value must be at least ", el.min, ".">>
MsgMax(el) == <<"Value cannot be more than ", el.max, ".">>
MsgNumber == <<"Please enter a valid number.">>
MsgInvalid == <<"The value you entered is invalid.">>

\* Mutant: no early return for a disabled field.
validateInputOfDisabled(el) ==
  LET c == clearError(el) IN
  IF c.validity # {}
  THEN [ok |-> FALSE,
        el |-> IF "valueMissing" \in c.validity THEN showError(c, MsgRequired)
               ELSE IF "rangeUnderflow" \in c.validity THEN showError(c, MsgMin(c))
               ELSE IF "rangeOverflow" \in c.validity THEN showError(c, MsgMax(c))
               ELSE IF "badInput" \in c.validity THEN showError(c, MsgNumber)
               ELSE showError(c, MsgInvalid)]
  ELSE [ok |-> TRUE, el |-> c]

validateInput(el) ==
  LET c == clearError(el) IN
  IF c.disabled THEN [ok |-> TRUE, el |-> c]
  ELSE IF c.validity # {}
  THEN [ok |-> FALSE,
        el |-> IF "valueMissing" \in c.validity THEN showError(c, MsgRequired)
               ELSE IF "rangeUnderflow" \in c.validity THEN showError(c, MsgMin(c))
               ELSE IF "rangeOverflow" \in c.validity THEN showError(c, MsgMax(c))
               ELSE IF "badInput" \in c.validity THEN showError(c, MsgNumber)
               ELSE showError(c, MsgInvalid)]
  ELSE [ok |-> TRUE, el |-> c]

(***************************************************************************)
(* showPanelById / validatePanel                                           *)
(***************************************************************************)
FieldSeq == [i \in Fields |-> i]
PanelFieldSeq(panel) == SelectSeq(FieldSeq, LAMBDA f : FieldPanel[f] = panel)

\* focus() on a disabled control does nothing.
FocusAfter(targetId, fs) ==
  IF targetId \in panels /\ PanelFieldSeq(targetId) # <<>>
  THEN LET firstInput == Head(PanelFieldSeq(targetId))
       IN IF fs[firstInput].disabled THEN focus ELSE firstInput
  ELSE focus

showPanelById(targetId, fs) ==
  /\ active' = [p \in panels |-> p = targetId]
  /\ ariaHidden' = [p \in panels |-> ~(p = targetId)]
  /\ tabActive' = [t \in tabs |-> t = targetId]
  /\ tabSelected' = [t \in tabs |-> t = targetId]
  /\ focus' = FocusAfter(targetId, fs)

\* Validates the fields of seq in order and stops at the first invalid one,
\* as Array.prototype.every and the submit loop do.
RECURSIVE ValidateInOrder(_, _)
ValidateInOrder(seq, fs) ==
  IF seq = <<>> THEN [ok |-> TRUE, fields |-> fs, field |-> NoField]
  ELSE LET r == validateInput(fs[Head(seq)])
           fs2 == [fs EXCEPT ![Head(seq)] = r.el]
       IN IF r.ok THEN ValidateInOrder(Tail(seq), fs2)
          ELSE [ok |-> FALSE, fields |-> fs2, field |-> Head(seq)]

\* Mutant: the panel's verdict ignores the fields' verdicts.
validatePanelAlwaysTrue(panel, fs) ==
  [ValidateInOrder(SelectSeq(PanelFieldSeq(panel), LAMBDA f : ~fs[f].disabled), fs)
     EXCEPT !.ok = TRUE]

validatePanel(panel, fs) ==
  ValidateInOrder(SelectSeq(PanelFieldSeq(panel), LAMBDA f : ~fs[f].disabled), fs)

(***************************************************************************)
(* The listeners of setupListeners                                         *)
(***************************************************************************)
Event(ev, target, panel, field, ok, prevented) ==
  [ev |-> ev, target |-> target, panel |-> panel, field |-> field,
   ok |-> ok, prevented |-> prevented]

\* The panel that is active, NoPanel when none or several are.
ActivePanel ==
  IF Cardinality({p \in panels : active[p]}) = 1
  THEN CHOOSE p \in panels : active[p]
  ELSE NoPanel

\* Mutant: a tab click validates the active panel like the next button does.
TabClickValidated(t) ==
  LET r == validatePanel(ActivePanel, fields) IN
  /\ fields' = r.fields
  /\ IF r.ok THEN showPanelById(t, r.fields)
     ELSE UNCHANGED <<active, ariaHidden, tabActive, tabSelected, focus>>
  /\ last' = Event("tab", t, NoPanel, NoField, TRUE, FALSE)
  /\ UNCHANGED <<sliderVars, keyVars>>

TabClick(t) ==
  /\ showPanelById(t, fields)
  /\ fields' = fields
  /\ last' = Event("tab", t, NoPanel, NoField, TRUE, FALSE)
  /\ UNCHANGED <<sliderVars, keyVars>>

NextClick(currentPanel, t) ==
  LET r == validatePanel(currentPanel, fields) IN
  /\ fields' = r.fields
  /\ IF r.ok THEN showPanelById(t, r.fields)
     ELSE UNCHANGED <<active, ariaHidden, tabActive, tabSelected, focus>>
  /\ last' = Event("next", t, currentPanel, r.field, r.ok, FALSE)
  /\ UNCHANGED <<sliderVars, keyVars>>

\* Mutant: a failed submit is cancelled but the panel is not switched.
SubmitWithoutSwitch ==
  LET allFields == SelectSeq(FieldSeq, LAMBDA f : ~fields[f].disabled)
      r == ValidateInOrder(allFields, fields)
  IN
  /\ fields' = r.fields
  /\ UNCHANGED <<active, ariaHidden, tabActive, tabSelected, focus>>
  /\ last' = Event("submit", NoPanel, ActivePanel, r.field, r.ok, ~r.ok)
  /\ UNCHANGED <<sliderVars, keyVars>>

Submit ==
  LET allFields == SelectSeq(FieldSeq, LAMBDA f : ~fields[f].disabled)
      r == ValidateInOrder(allFields, fields)
  IN
  /\ fields' = r.fields
  /\ IF ~r.ok THEN showPanelById(FieldPanel[r.field], r.fields)
     ELSE UNCHANGED <<active, ariaHidden, tabActive, tabSelected, focus>>
  /\ last' = Event("submit", NoPanel, ActivePanel, r.field, r.ok, ~r.ok)
  /\ UNCHANGED <<sliderVars, keyVars>>

\* The change listener of the smoker select.
SmokerReconcile(fs) ==
  LET isSmoker == fs[smokerStatusEl].value = "1"
      c1 == [fs[cigsPerDayEl] EXCEPT !.disabled = ~isSmoker, !.required = isSmoker]
      c2 == IF ~isSmoker THEN clearError([c1 EXCEPT !.value = ""]) ELSE c1
  IN [fs EXCEPT ![cigsPerDayEl] = Revalidate(c2)]

\* The user picks an option: the form's input listener validates the select,
\* then its change listener reconciles the cigarettes field.
SmokerChange(v) ==
  LET picked == Revalidate([fields[smokerStatusEl] EXCEPT !.value = v])
      fs1 == [fields EXCEPT ![smokerStatusEl] = validateInput(picked).el]
  IN
  /\ ~fields[smokerStatusEl].disabled
  /\ fields' = SmokerReconcile(fs1)
  /\ last' = Event("smoker", NoPanel, NoPanel, smokerStatusEl, v = "1", FALSE)
  /\ UNCHANGED <<active, ariaHidden, tabActive, tabSelected, focus>>
  /\ UNCHANGED <<sliderVars, keyVars>>

NumberValues == {"", "20"}
SelectValues == {"", "0", "1"}

\* The validity states the user's edits of the form produce.
UserValidities ==
  {{}, {"valueMissing"}, {"valueMissing", "badInput"}, {"rangeUnderflow"},
   {"rangeOverflow", "stepMismatch"}}

\* The user edits a number field: the form's input listener validates it.
InputEvent(f, v, fl) ==
  LET edited == [fields[f] EXCEPT !.value = v, !.validity = fl]
      r == validateInput(edited)
  IN
  /\ f # smokerStatusEl
  /\ v \in (IF FieldKind[f] = "select" THEN SelectValues ELSE NumberValues)
  /\ ~fields[f].disabled
  /\ ConsistentValidity(edited, fl)
  /\ fields' = [fields EXCEPT ![f] = r.el]
  /\ last' = Event("input", NoPanel, NoPanel, f, r.ok, FALSE)
  /\ UNCHANGED <<active, ariaHidden, tabActive, tabSelected, focus>>
  /\ UNCHANGED <<sliderVars, keyVars>>

Keys == {"Enter", "a"}

Keydown(f, key) ==
  /\ ~fields[f].disabled
  /\ last' = Event("keydown", NoPanel, NoPanel, NoField, TRUE,
                   key = "Enter" /\ FieldKind[f] # "select")
  /\ UNCHANGED <<active, ariaHidden, tabActive, tabSelected, focus, fields>>
  /\ UNCHANGED <<sliderVars, keyVars>>

(***************************************************************************)
(* The form after DOMContentLoaded                                         *)
(***************************************************************************)
Field(f, value, required, hint, hasSmall) ==
  Revalidate([kind |-> FieldKind[f], min |-> FieldMin[f], max |-> FieldMax[f],
              disabled |-> FALSE, required |-> required, value |-> value,
              validity |-> {}, invalid |-> FALSE, hasSmall |-> hasSmall,
              innerText |-> hint, originalText |-> Absent, errorMessage |-> FALSE])

MarkupFields(smoker, hint) ==
  [f \in Fields |->
     IF f = smokerStatusEl THEN Field(f, smoker, TRUE, <<>>, FALSE)
     ELSE IF f = cigsPerDayEl THEN Field(f, "", FALSE, hint, TRUE)
     ELSE IF FieldKind[f] = "select" THEN Field(f, "", TRUE, <<"as recorded">>, TRUE)
     ELSE Field(f, "", TRUE, <<"years">>, TRUE)]

InitForm ==
  \E p0 \in panels, smoker \in SelectValues, hint \in Hints :
    /\ active = [p \in panels |-> p = p0]
    /\ ariaHidden = [p \in panels |-> p # p0]
    /\ tabActive = [t \in tabs |-> t = p0]
    /\ tabSelected = [t \in tabs |-> t = p0]
    /\ focus = NoField
    /\ fields = SmokerReconcile(MarkupFields(smoker, hint))
    /\ last = Event("init", NoPanel, NoPanel, NoField, TRUE, FALSE)

\* The parts of the state a specification does not use.
IdleSliders ==
  /\ sliders = <<>>
  /\ raf = {}
  /\ btn = [disabled |-> FALSE, textContent |-> "Update Prediction"]
  /\ reqs = <<>>
  /\ page = [loaded |-> FALSE, base |-> FALSE, result |-> "", suggestions |-> <<>>]
  /\ slast = [ev |-> "none", alert |-> FALSE]

IdleKeys ==
  /\ raw = <<>>
  /\ canon = <<>>

Init == InitForm /\ IdleSliders /\ IdleKeys

Next ==
  \/ \E t \in tabs : TabClick(t)
  \/ \E p \in panels, t \in Targets : NextClick(p, t)
  \/ Submit
  \/ \E v \in SelectValues : SmokerChange(v)
  \/ \E f \in Fields, v \in NumberValues \cup SelectValues, fl \in UserValidities :
       InputEvent(f, v, fl)
  \/ \E f \in Fields, key \in Keys : Keydown(f, key)

Spec == Init /\ [][Next]_vars

(***************************************************************************)
(* validateInput on one field, whatever state its owner put it in          *)
(***************************************************************************)
TestFields == {cigsPerDayEl}

\* The page, the user or the browser changes the control.
FieldSet(f, d, r, v, fl) ==
  /\ ~d => (("valueMissing" \in fl) <=> (r /\ v = ""))
  /\ fields' = [fields EXCEPT ![f] = [@ EXCEPT !.disabled = d, !.required = r,
                                               !.value = v, !.validity = fl]]
  /\ fields'[f] # fields[f]
  /\ last' = Event("set", NoPanel, NoPanel, f, TRUE, FALSE)
  /\ UNCHANGED <<active, ariaHidden, tabActive, tabSelected, focus>>
  /\ UNCHANGED <<sliderVars, keyVars>>

FieldValidate(f) ==
  LET r == validateInput(fields[f]) IN
  /\ fields' = [fields EXCEPT ![f] = r.el]
  /\ last' = Event("validate", NoPanel, NoPanel, f, r.ok, FALSE)
  /\ UNCHANGED <<active, ariaHidden, tabActive, tabSelected, focus>>
  /\ UNCHANGED <<sliderVars, keyVars>>

InitField ==
  \E p0 \in {FieldPanel[Head(FieldSeq)]}, hint \in Hints, hasSmall \in BOOLEAN :
    /\ active = [p \in panels |-> p = p0]
    /\ ariaHidden = [p \in panels |-> p # p0]
    /\ tabActive = [t \in tabs |-> t = p0]
    /\ tabSelected = [t \in tabs |-> t = p0]
    /\ focus = NoField
    /\ fields = [f \in Fields |->
                   IF f \in TestFields THEN Field(f, "", FALSE, hint, hasSmall)
                   ELSE MarkupFields("1", hint)[f]]
    /\ last = Event("init", NoPanel, NoPanel, NoField, TRUE, FALSE)

NextField ==
  \/ \E f \in TestFields, d \in BOOLEAN, r \in BOOLEAN, v \in NumberValues,
        fl \in SUBSET Flags : FieldSet(f, d, r, v, fl)
  \/ \E f \in TestFields : FieldValidate(f)

InitFieldPage == InitField /\ IdleSliders /\ IdleKeys

SpecField == InitFieldPage /\ [][NextField]_vars

(***************************************************************************)
(* resScript.js: LIMITS, SYN, normalizeKey, canonicalKey                   *)
(* Keys are sequences of characters.  Numbers are integers counting        *)
(* tenths: 18 is 18 * Unit, 0.1 is Unit \div 10.                           *)
(***************************************************************************)
Unit == 10

LIMITS == <<
  [key |-> <<"a", "g", "e">>,
   min |-> 18 * Unit, max |-> 100 * Unit, step |-> 1 * Unit],
  [key |-> <<"b", "m", "i">>,
   min |-> 10 * Unit, max |-> 60 * Unit, step |-> Unit \div 10],
  [key |-> <<"h", "e", "a", "r", "t", "r", "a", "t", "e">>,
   min |-> 40 * Unit, max |-> 200 * Unit, step |-> 1 * Unit],
  [key |-> <<"s", "y", "s", "b", "p">>,
   min |-> 80 * Unit, max |-> 250 * Unit, step |-> 1 * Unit],
  [key |-> <<"d", "i", "a", "b", "p">>,
   min |-> 50 * Unit, max |-> 150 * Unit, step |-> 1 * Unit],
  [key |-> <<"r", "e", "s", "t", "i", "n", "g", "b", "p", "s">>,
   min |-> 80 * Unit, max |-> 200 * Unit, step |-> 1 * Unit],
  [key |-> <<"m", "a", "x", "h", "e", "a", "r", "t", "r", "a", "t", "e">>,
   min |-> 60 * Unit, max |-> 220 * Unit, step |-> 1 * Unit],
  [key |-> <<"c", "h", "o", "l", "e", "s", "t", "e", "r", "o", "l">>,
   min |-> 100 * Unit, max |-> 400 * Unit, step |-> 1 * Unit],
  [key |-> <<"t", "o", "t", "c", "h", "o", "l">>,
   min |-> 100 * Unit, max |-> 400 * Unit, step |-> 1 * Unit],
  [key |-> <<"o", "l", "d", "p", "e", "a", "k">>,
   min |-> 0 * Unit, max |-> 6 * Unit, step |-> Unit \div 10],
  [key |-> <<"s", "t", "s", "l", "o", "p", "e">>,
   min |-> 0 * Unit, max |-> 2 * Unit, step |-> 1 * Unit],
  [key |-> <<"f", "a", "s", "t", "i", "n", "g", "b", "l", "o", "o", "d", "s", "u", "g", "a", "r">>,
   min |-> 0 * Unit, max |-> 1 * Unit, step |-> 1 * Unit],
  [key |-> <<"s", "e", "x">>,
   min |-> 0 * Unit, max |-> 1 * Unit, step |-> 1 * Unit],
  [key |-> <<"c", "h", "e", "s", "t", "p", "a", "i", "n", "t", "y", "p", "e">>,
   min |-> 0 * Unit, max |-> 3 * Unit, step |-> 1 * Unit],
  [key |-> <<"e", "x", "e", "r", "c", "i", "s", "e", "a", "n", "g", "i", "n", "a">>,
   min |-> 0 * Unit, max |-> 1 * Unit, step |-> 1 * Unit],
  [key |-> <<"c", "u", "r", "r", "e", "n", "t", "s", "m", "o", "k", "e", "r">>,
   min |-> 0 * Unit, max |-> 1 * Unit, step |-> 1 * Unit],
  [key |-> <<"c", "i", "g", "s", "p", "e", "r", "d", "a", "y">>,
   min |-> 0 * Unit, max |-> 60 * Unit, step |-> 1 * Unit],
  [key |-> <<"b", "p", "m", "e", "d", "s">>,
   min |-> 0 * Unit, max |-> 1 * Unit, step |-> 1 * Unit],
  [key |-> <<"p", "r", "e", "v", "a", "l", "e", "n", "t", "s", "t", "r", "o", "k", "e">>,
   min |-> 0 * Unit, max |-> 1 * Unit, step |-> 1 * Unit],
  [key |-> <<"p", "r", "e", "v", "a", "l", "e", "n", "t", "h", "y", "p">>,
   min |-> 0 * Unit, max |-> 1 * Unit, step |-> 1 * Unit],
  [key |-> <<"d", "i", "a", "b", "e", "t", "e", "s">>,
   min |-> 0 * Unit, max |-> 1 * Unit, step |-> 1 * Unit],
  [key |-> <<"r", "e", "s", "t", "e", "c", "g">>,
   min |-> 0 * Unit, max |-> 2 * Unit, step |-> 1 * Unit] >>

SYN == <<
  [key |-> <<"c", "h", "o", "l", "e", "s", "t", "e", "r", "o", "l", "m", "g", "d", "l">>,
   value |-> <<"c", "h", "o", "l", "e", "s", "t", "e", "r", "o", "l">>],
  [key |-> <<"r", "e", "s", "t", "i", "n", "g", "b", "p", "m", "m", "h", "g">>,
   value |-> <<"r", "e", "s", "t", "i", "n", "g", "b", "p", "s">>],
  [key |-> <<"m", "a", "x", "h", "e", "a", "r", "t", "r", "a", "t", "e", "b", "p", "m">>,
   value |-> <<"m", "a", "x", "h", "e", "a", "r", "t", "r", "a", "t", "e">>],
  [key |-> <<"o", "l", "d", "p", "e", "a", "k", "s", "t", "d", "e", "p", "r", "e", "s", "s", "i", "o", "n">>,
   value |-> <<"o", "l", "d", "p", "e", "a", "k">>],
  [key |-> <<"s", "t", "s", "l", "o", "p", "e">>,
   value |-> <<"s", "t", "s", "l", "o", "p", "e">>],
  [key |-> <<"f", "a", "s", "t", "i", "n", "g", "b", "l", "o", "o", "d", "s", "u", "g", "a", "r">>,
   value |-> <<"f", "a", "s", "t", "i", "n", "g", "b", "l", "o", "o", "d", "s", "u", "g", "a", "r">>],
  [key |-> <<"e", "x", "e", "r", "c", "i", "s", "e", "i", "n", "d", "u", "c", "e", "d", "a", "n", "g", "i", "n", "a">>,
   value |-> <<"e", "x", "e", "r", "c", "i", "s", "e", "a", "n", "g", "i", "n", "a">>],
  [key |-> <<"t", "r", "e", "s", "t", "b", "p", "s">>,
   value |-> <<"r", "e", "s", "t", "i", "n", "g", "b", "p", "s">>],
  [key |-> <<"t", "h", "a", "l", "a", "c", "h">>,
   value |-> <<"m", "a", "x", "h", "e", "a", "r", "t", "r", "a", "t", "e">>],
  [key |-> <<"f", "b", "s">>,
   value |-> <<"f", "a", "s", "t", "i", "n", "g", "b", "l", "o", "o", "d", "s", "u", "g", "a", "r">>],
  [key |-> <<"c", "p">>,
   value |-> <<"c", "h", "e", "s", "t", "p", "a", "i", "n", "t", "y", "p", "e">>],
  [key |-> <<"e", "x", "a", "n", "g">>,
   value |-> <<"e", "x", "e", "r", "c", "i", "s", "e", "a", "n", "g", "i", "n", "a">>],
  [key |-> <<"r", "e", "s", "t", "i", "n", "g", "b", "p", "s">>,
   value |-> <<"r", "e", "s", "t", "i", "n", "g", "b", "p", "s">>],
  [key |-> <<"r", "e", "s", "t", "i", "n", "g", "b", "p", "s", "y", "s", "t", "o", "l", "i", "c">>,
   value |-> <<"r", "e", "s", "t", "i", "n", "g", "b", "p", "s">>],
  [key |-> <<"r", "e", "s", "t", "i", "n", "g", "-", "b", "p", "-", "s">>,
   value |-> <<"r", "e", "s", "t", "i", "n", "g", "b", "p", "s">>],
  [key |-> <<"m", "a", "x", "-", "h", "e", "a", "r", "t", "-", "r", "a", "t", "e">>,
   value |-> <<"m", "a", "x", "h", "e", "a", "r", "t", "r", "a", "t", "e">>] >>

\* Mutant: a synonym that leads to another synonym instead of a LIMITS key.
SYNChained ==
  [i \in 1..Len(SYN) |->
     IF SYN[i].key = <<"c", "p">>
     THEN [key |-> SYN[i].key, value |-> <<"e", "x", "a", "n", "g">>]
     ELSE SYN[i]]

SynTable == SYN

HasLimits(k) == \E i \in 1..Len(LIMITS) : LIMITS[i].key = k
LimitsOf(k) == LIMITS[CHOOSE i \in 1..Len(LIMITS) : LIMITS[i].key = k]
HasSyn(k) == \E i \in 1..Len(SynTable) : SynTable[i].key = k
SynOf(k) == SynTable[CHOOSE i \in 1..Len(SynTable) : SynTable[i].key = k].value

LowerCase == <<"a", "b", "c", "d", "e", "f", "g", "h", "i", "j", "k", "l", "m",
               "n", "o", "p", "q", "r", "s", "t", "u", "v", "w", "x", "y", "z">>
UpperCase == <<"A", "B", "C", "D", "E", "F", "G", "H", "I", "J", "K", "L", "M",
               "N", "O", "P", "Q", "R", "S", "T", "U", "V", "W", "X", "Y", "Z">>
Digits == {"0", "1", "2", "3", "4", "5", "6", "7", "8", "9"}
WhiteSpace == {" ", "\t"}
Separators == {"(", ")", "/", "-", ".", "_"}

toLowerCase(c) ==
  IF \E i \in 1..Len(UpperCase) : UpperCase[i] = c
  THEN LowerCase[CHOOSE i \in 1..Len(UpperCase) : UpperCase[i] = c]
  ELSE c

IsLowerAlnum(c) == c \in Digits \/ \E i \in 1..Len(LowerCase) : LowerCase[i] = c

normalizeKey(s) ==
  IF s = <<>> THEN <<>>
  ELSE LET lower == [i \in 1..Len(s) |-> toLowerCase(s[i])]
           noSpace == SelectSeq(lower, LAMBDA c : c \notin WhiteSpace)
           noSep == SelectSeq(noSpace, LAMBDA c : c \notin Separators)
       IN SelectSeq(noSep, IsLowerAlnum)

canonicalKey(rawKey) ==
  LET k == normalizeKey(rawKey) IN
  IF HasLimits(k) THEN k
  ELSE IF HasSyn(k) THEN SynOf(k)
  ELSE k

(***************************************************************************)
(* Key resolution applied to a raw key, and again to its result            *)
(***************************************************************************)
MaxKeyLen == 3
MaxResolve == 2

KeyAlphabet == {"c", "p", "P", "-", " ", "%"}

RECURSIVE SeqsUpTo(_, _)
SeqsUpTo(S, n) ==
  IF n = 0 THEN {<<>>}
  ELSE LET shorter == SeqsUpTo(S, n - 1)
       IN shorter \cup {Append(q, c) : q \in shorter, c \in S}

LabelKeys ==
  {<<"R", "e", "s", "t", "i", "n", "g", " ", "B", "P", " ", "(", "m", "m", "H", "g", ")">>,
   <<"M", "a", "x", "-", "H", "e", "a", "r", "t", "-", "R", "a", "t", "e">>,
   <<"C", "h", "o", "l", "e", "s", "t", "e", "r", "o", "l", " ", "(", "m", "g", "/", "d", "l", ")">>,
   <<"S", "T", "_", "S", "l", "o", "p", "e">>,
   <<"B", "M", "I">>,
   <<"n", "o", "t", "e", "s">>}

RawKeys ==
  {LIMITS[i].key : i \in 1..Len(LIMITS)}
    \cup {SYN[i].key : i \in 1..Len(SYN)}
    \cup LabelKeys
    \cup SeqsUpTo(KeyAlphabet, MaxKeyLen)

Resolve ==
  /\ Len(canon) < MaxResolve
  /\ canon' = Append(canon, canonicalKey(IF canon = <<>> THEN raw ELSE canon[Len(canon)]))
  /\ UNCHANGED raw
  /\ UNCHANGED <<formVars, sliderVars>>

IdleForm ==
  /\ active = [p \in panels |-> p = FieldPanel[Head(FieldSeq)]]
  /\ ariaHidden = [p \in panels |-> p # FieldPanel[Head(FieldSeq)]]
  /\ tabActive = [t \in tabs |-> t = FieldPanel[Head(FieldSeq)]]
  /\ tabSelected = [t \in tabs |-> t = FieldPanel[Head(FieldSeq)]]
  /\ focus = NoField
  /\ fields = SmokerReconcile(MarkupFields("", <<>>))
  /\ last = Event("init", NoPanel, NoPanel, NoField, TRUE, FALSE)

InitKey ==
  /\ raw \in RawKeys
  /\ canon = <<>>
  /\ IdleForm /\ IdleSliders

NextKey == Resolve

SpecKey == InitKey /\ [][NextKey]_vars

(***************************************************************************)
(* resScript.js: clamp, applyLimitsFromMap, findValueSpanForInput          *)
(* An attribute or a text is Num(n) when it reads as the number n (in      *)
(* tenths) and Str(s) otherwise; Str("") is an attribute that is not set.  *)
(***************************************************************************)
Num(n) == [num |-> TRUE, n |-> n, s |-> ""]
Str(str) == [num |-> FALSE, n |-> 0, s |-> str]

\* NaN compares false with every number.
NaN == -1000000000
isNaN(x) == x = NaN
parseFloat(a) == IF a.num THEN a.n ELSE NaN
JsLess(x, y) == ~isNaN(x) /\ ~isNaN(y) /\ x < y
JsLessEq(x, y) == ~isNaN(x) /\ ~isNaN(y) /\ x <= y
Min(x, y) == IF x <= y THEN x ELSE y
Max(x, y) == IF x >= y THEN x ELSE y

\* Mutant: a value above the range is left alone.
clampLowOnly(v, lo, hi) ==
  IF isNaN(v) THEN lo ELSE Max(lo, v)

clamp(v, lo, hi) ==
  IF isNaN(v) THEN lo ELSE Min(hi, Max(lo, v))

FeatRaw(input) ==
  IF input.feat # <<>> THEN input.feat
  ELSE IF input.id # <<>> THEN input.id
  ELSE input.name

\* Mutant: a bound is replaced when it is looser than the canonical one and
\* kept when it is tighter.
applyLimitsKeepTighter(input) ==
  LET key == canonicalKey(FeatRaw(input)) IN
  IF ~HasLimits(key) THEN input
  ELSE LET lim == LimitsOf(key)
           curMin == parseFloat(input.min)
           curMax == parseFloat(input.max)
       IN [input EXCEPT
             !.min = IF isNaN(curMin) \/ JsLess(curMin, -50 * Unit) \/ JsLess(curMin, lim.min)
                     THEN Num(lim.min) ELSE @,
             !.max = IF isNaN(curMax) \/ JsLess(500 * Unit, curMax) \/ JsLess(lim.max, curMax)
                     THEN Num(lim.max) ELSE @,
             !.step = IF input.step = Str("") \/ input.step = Str("any")
                          \/ JsLessEq(parseFloat(input.step), 0)
                      THEN Num(IF lim.step # 0 THEN lim.step ELSE 1 * Unit) ELSE @,
             !.value = Num(clamp(parseFloat(input.value), lim.min, lim.max))]

applyLimitsFromMap(input) ==
  LET key == canonicalKey(FeatRaw(input)) IN
  IF ~HasLimits(key) THEN input
  ELSE LET lim == LimitsOf(key)
           curMin == parseFloat(input.min)
           curMax == parseFloat(input.max)
       IN [input EXCEPT
             !.min = IF isNaN(curMin) \/ JsLess(curMin, -50 * Unit) \/ JsLess(lim.min, curMin)
                     THEN Num(lim.min) ELSE @,
             !.max = IF isNaN(curMax) \/ JsLess(500 * Unit, curMax) \/ JsLess(curMax, lim.max)
                     THEN Num(lim.max) ELSE @,
             !.step = IF input.step = Str("") \/ input.step = Str("any")
                          \/ JsLessEq(parseFloat(input.step), 0)
                      THEN Num(IF lim.step # 0 THEN lim.step ELSE 1 * Unit) ELSE @,
             !.value = Num(clamp(parseFloat(input.value), lim.min, lim.max))]

\* readout: "label" (a span in the preceding label), "parent" (a
\* .slider-value in the parent) or "none".
findValueSpanForInput(input) == input.readout # "none"

\* Mutant: the limits are re-applied but the readout is not refreshed.
updateWithoutReadout(el) == applyLimitsFromMap(el)

\* update(el) of the input, change and wheel listeners.
update(el) ==
  LET a == applyLimitsFromMap(el)
  IN IF findValueSpanForInput(a) THEN [a EXCEPT !.span = a.value] ELSE a

(***************************************************************************)
(* The results page: its sliders as declared in the markup                 *)
(***************************************************************************)
SliderKinds == <<
  [feat |-> <<"t", "r", "e", "s", "t", "b", "p", "s">>, id |-> <<>>, name |-> <<>>,
   readout |-> "label"],
  [feat |-> <<"t", "h", "a", "l", "a", "c", "h">>, id |-> <<>>, name |-> <<>>,
   readout |-> "parent"],
  [feat |-> <<>>, id |-> <<"B", "M", "I">>, name |-> <<>>,
   readout |-> "none"],
  [feat |-> <<>>, id |-> <<>>, name |-> <<"n", "o", "t", "e", "s">>,
   readout |-> "label"] >>

Resolved(input) == HasLimits(canonicalKey(FeatRaw(input)))

DeclaredMin == {Str(""), Num(-51 * Unit), Num(-50 * Unit), Num(90 * Unit)}
DeclaredMax == {Str(""), Num(9999 * Unit), Num(300 * Unit), Num(100 * Unit)}
DeclaredStep == {Str(""), Str("any"), Str("abc"), Num(0), Num(-1 * Unit), Num(5)}
DeclaredValue == {Str(""), Str("abc"), Num(150 * Unit), Num(500 * Unit)}
UserValues == {Num(-5 * Unit), Num(501 * Unit)}

Slider(kind, min, max, step, value) ==
  [feat |-> SliderKinds[kind].feat, id |-> SliderKinds[kind].id,
   name |-> SliderKinds[kind].name, readout |-> SliderKinds[kind].readout,
   min |-> min, max |-> max, step |-> step, value |-> value, span |-> Str("")]

SliderIds == DOMAIN sliders

\* The pages tried: the kinds of their two sliders.  The first slider takes
\* every declared min, max, step and value, the second declares none.
Pages == {<<1, 4>>, <<2, 3>>, <<3, 1>>}

InitSliders ==
  /\ \E pg \in Pages, min \in DeclaredMin, max \in DeclaredMax,
        step \in DeclaredStep, value \in DeclaredValue :
       sliders = << Slider(pg[1], min, max, step, value),
                    Slider(pg[2], Str(""), Str(""), Str(""), Str("")) >>
  /\ raf = {}
  /\ btn = [disabled |-> FALSE, textContent |-> "Update Prediction"]
  /\ reqs = <<>>
  /\ \E base \in BOOLEAN :
       page = [loaded |-> FALSE, base |-> base, result |-> "Low",
               suggestions |-> <<"Keep it up">>]
  /\ slast = [ev |-> "none", alert |-> FALSE]

(***************************************************************************)
(* DOMContentLoaded and the slider listeners                               *)
(***************************************************************************)
Observed(ev, alert) == [ev |-> ev, alert |-> alert]

Load ==
  /\ ~page.loaded
  /\ sliders' = [i \in SliderIds |->
                   LET a == applyLimitsFromMap(sliders[i])
                   IN IF findValueSpanForInput(a) THEN [a EXCEPT !.span = a.value] ELSE a]
  /\ page' = [page EXCEPT !.loaded = TRUE]
  /\ slast' = Observed("load", FALSE)
  /\ UNCHANGED <<raf, btn, reqs>>
  /\ UNCHANGED <<formVars, keyVars>>

SliderInput(i, v) ==
  /\ page.loaded
  /\ sliders' = [sliders EXCEPT ![i] = update([@ EXCEPT !.value = v])]
  /\ slast' = Observed("input", FALSE)
  /\ UNCHANGED <<raf, btn, reqs, page>>
  /\ UNCHANGED <<formVars, keyVars>>

SliderChange(i, v) ==
  /\ page.loaded
  /\ sliders' = [sliders EXCEPT ![i] = update([@ EXCEPT !.value = v])]
  /\ slast' = Observed("change", FALSE)
  /\ UNCHANGED <<raf, btn, reqs, page>>
  /\ UNCHANGED <<formVars, keyVars>>

MaxFrames == 1

\* The wheel listener only requests a frame; the browser's own step of the
\* value comes with the event.
SliderWheel(i, v) ==
  /\ page.loaded
  /\ Cardinality(raf \cup {i}) <= MaxFrames
  /\ raf' = raf \cup {i}
  /\ sliders' = [sliders EXCEPT ![i].value = v]
  /\ slast' = Observed("wheel", FALSE)
  /\ UNCHANGED <<btn, reqs, page>>
  /\ UNCHANGED <<formVars, keyVars>>

AnimationFrame(i) ==
  /\ i \in raf
  /\ raf' = raf \ {i}
  /\ sliders' = [sliders EXCEPT ![i] = update(@)]
  /\ slast' = Observed("frame", FALSE)
  /\ UNCHANGED <<btn, reqs, page>>
  /\ UNCHANGED <<formVars, keyVars>>

(***************************************************************************)
(* The update button: click, fetch, resp.json(), DOM patch, finally        *)
(***************************************************************************)
Idle == [disabled |-> FALSE, textContent |-> "Update Prediction"]
Busy == [disabled |-> TRUE, textContent |-> "Updating..."]

RemoveAt(q, i) == [j \in 1..(Len(q) - 1) |-> IF j < i THEN q[j] ELSE q[j + 1]]

\* Mutant: the button is put in the busy state before BASE_INPUTS is tested.
UpdateClickBusyFirst ==
  /\ page.loaded
  /\ ~btn.disabled
  /\ btn' = Busy
  /\ IF ~page.base
     THEN /\ slast' = Observed("click", TRUE)
          /\ UNCHANGED reqs
     ELSE /\ reqs' = Append(reqs, [pc |-> "fetch"])
          /\ slast' = Observed("click", FALSE)
  /\ UNCHANGED <<sliders, raf, page>>
  /\ UNCHANGED <<formVars, keyVars>>

\* Mutant: the request is issued without disabling the button.
UpdateClickLeavesEnabled ==
  /\ page.loaded
  /\ ~btn.disabled
  /\ Len(reqs) < 3
  /\ IF ~page.base
     THEN /\ slast' = Observed("click", TRUE)
          /\ UNCHANGED <<btn, reqs>>
     ELSE /\ UNCHANGED btn
          /\ reqs' = Append(reqs, [pc |-> "fetch"])
          /\ slast' = Observed("click", FALSE)
  /\ UNCHANGED <<sliders, raf, page>>
  /\ UNCHANGED <<formVars, keyVars>>

\* A click reaches the button only while it is not disabled.
UpdateClick ==
  /\ page.loaded
  /\ ~btn.disabled
  /\ IF ~page.base
     THEN /\ slast' = Observed("click", TRUE)
          /\ UNCHANGED <<btn, reqs>>
     ELSE /\ btn' = Busy
          /\ reqs' = Append(reqs, [pc |-> "fetch"])
          /\ slast' = Observed("click", FALSE)
  /\ UNCHANGED <<sliders, raf, page>>
  /\ UNCHANGED <<formVars, keyVars>>

\* Mutant: the catch block without the finally block.
FailedWithoutFinally(i, ev) ==
  /\ slast' = Observed(ev, TRUE)
  /\ UNCHANGED btn
  /\ reqs' = RemoveAt(reqs, i)

\* catch and finally of the handler suspended as reqs[i]; ev names what threw:
\* "status" (resp.ok false), "rejected" (fetch), "nojson" (resp.json()),
\* "threw" (the patch of the page).
Failed(i, ev) ==
  /\ slast' = Observed(ev, TRUE)
  /\ btn' = Idle
  /\ reqs' = RemoveAt(reqs, i)

\* fetch resolves with a success status: the handler goes on to resp.json().
FetchOk(i) ==
  /\ i \in DOMAIN reqs /\ reqs[i].pc = "fetch"
  /\ reqs' = [reqs EXCEPT ![i].pc = "json"]
  /\ slast' = Observed("response", FALSE)
  /\ UNCHANGED <<sliders, raf, btn, page>>
  /\ UNCHANGED <<formVars, keyVars>>

\* Mutant: the body of a response with a non-success status is read.
FetchNotOkReadsBody(i) ==
  /\ i \in DOMAIN reqs /\ reqs[i].pc = "fetch"
  /\ reqs' = [reqs EXCEPT ![i].pc = "json"]
  /\ slast' = Observed("status", TRUE)
  /\ UNCHANGED <<sliders, raf, btn, page>>
  /\ UNCHANGED <<formVars, keyVars>>

\* fetch resolves with a non-success status: throw, catch, finally.
FetchNotOk(i) ==
  /\ i \in DOMAIN reqs /\ reqs[i].pc = "fetch"
  /\ Failed(i, "status")
  /\ UNCHANGED <<sliders, raf, page>>
  /\ UNCHANGED <<formVars, keyVars>>

\* fetch rejects.
FetchReject(i) ==
  /\ i \in DOMAIN reqs /\ reqs[i].pc = "fetch"
  /\ Failed(i, "rejected")
  /\ UNCHANGED <<sliders, raf, page>>
  /\ UNCHANGED <<formVars, keyVars>>

\* resp.json() rejects: the body is no JSON.
JsonReject(i) ==
  /\ i \in DOMAIN reqs /\ reqs[i].pc = "json"
  /\ Failed(i, "nojson")
  /\ UNCHANGED <<sliders, raf, page>>
  /\ UNCHANGED <<formVars, keyVars>>

\* (final_prob * 100).toFixed(1) + "%", of final_prob * 100 in tenths.
Percent(n) == ToString(n \div Unit) \o "." \o ToString(n % Unit) \o "%"

PatchResult(data, text) ==
  IF data.final_cat # "" THEN data.final_cat
  ELSE IF data.final_prob.num THEN Percent(data.final_prob.n)
  ELSE text

Tips(data) == IF data.tips.kind # "undefined" THEN data.tips ELSE data.suggestions

\* "--" stands for the dash of the source, which is not ASCII.
ListItem(t) ==
  IF t.feature # "" /\ t.tip # ""
  THEN "<strong>" \o t.feature \o "</strong> -- " \o t.tip
  ELSE t.text

\* tips.forEach of a value that is no array throws after the list was emptied.
TipsThrow(data) == Tips(data).kind = "string"

PatchSuggestions(data, list) ==
  IF Tips(data).kind = "undefined" THEN list
  ELSE IF Tips(data).kind = "array"
  THEN [j \in 1..Len(Tips(data).items) |-> ListItem(Tips(data).items[j])]
  ELSE <<>>

\* document.querySelector(`input.slider[data-feat="${item.name}"]`)
SliderByFeat(sl, name) ==
  IF name # <<>> /\ \E i \in DOMAIN sl : sl[i].feat = name
  THEN CHOOSE i \in DOMAIN sl : sl[i].feat = name /\ \A j \in DOMAIN sl : sl[j].feat = name => i <= j
  ELSE 0

RECURSIVE PatchSliders(_, _)
PatchSliders(items, sl) ==
  IF items = <<>> THEN sl
  ELSE LET item == Head(items)
           i == SliderByFeat(sl, item.name)
       IN PatchSliders(Tail(items),
            IF i = 0 THEN sl
            ELSE [sl EXCEPT ![i] = update([@ EXCEPT !.value = item.value])])

\* resp.json() resolves with data: the page is patched, then finally.
JsonOk(i, data) ==
  /\ i \in DOMAIN reqs /\ reqs[i].pc = "json"
  /\ page' = [page EXCEPT !.result = PatchResult(data, @),
                          !.suggestions = PatchSuggestions(data, @)]
  /\ IF TipsThrow(data)
     THEN /\ UNCHANGED sliders
          /\ slast' = Observed("threw", TRUE)
     ELSE /\ sliders' = IF data.top_features_values.kind = "array"
                        THEN PatchSliders(data.top_features_values.items, sliders)
                        ELSE sliders
          /\ slast' = Observed("patched", FALSE)
  /\ btn' = Idle
  /\ reqs' = RemoveAt(reqs, i)
  /\ UNCHANGED raf
  /\ UNCHANGED <<formVars, keyVars>>

Undefined == [kind |-> "undefined", items |-> <<>>]
Array(items) == [kind |-> "array", items |-> items]
PlainTip(text) == [feature |-> "", tip |-> "", text |-> text]
PairTip(feature, tip) == [feature |-> feature, tip |-> tip, text |-> ""]

\* The response bodies tried.
Responses ==
  LET none == [final_cat |-> "", final_prob |-> Str(""), tips |-> Undefined,
               suggestions |-> Undefined, top_features_values |-> Undefined]
      fix(n, v) == Array(<<[name |-> n, value |-> v]>>)
  IN {none,
      [none EXCEPT !.final_prob = Num(734), !.tips = Array(<<PlainTip("Exercise")>>)],
      [none EXCEPT !.final_cat = "High", !.final_prob = Num(734),
                   !.suggestions = Array(<<PairTip("BMI", "Reduce weight")>>)],
      [none EXCEPT !.final_cat = "High", !.tips = [kind |-> "string", items |-> <<>>],
                   !.top_features_values = fix(<<"t", "r", "e", "s", "t", "b", "p", "s">>, Num(501 * Unit))],
      [none EXCEPT !.top_features_values = [kind |-> "object", items |-> <<>>]],
      [none EXCEPT !.top_features_values = fix(<<"t", "r", "e", "s", "t", "b", "p", "s">>, Num(501 * Unit))],
      [none EXCEPT !.top_features_values = fix(<<"t", "h", "a", "l", "a", "c", "h">>, Str("abc"))],
      [none EXCEPT !.top_features_values = fix(<<"B", "M", "I">>, Num(501 * Unit))],
      [none EXCEPT !.top_features_values = fix(<<"n", "o", "t", "e", "s">>, Num(-5 * Unit))]}

NextSlider ==
  \/ Load
  \/ \E i \in SliderIds, v \in UserValues : SliderInput(i, v)
  \/ \E i \in SliderIds, v \in UserValues : SliderChange(i, v)
  \/ \E i \in SliderIds, v \in UserValues : SliderWheel(i, v)
  \/ \E i \in SliderIds : AnimationFrame(i)
  \/ UpdateClick
  \/ \E i \in DOMAIN reqs : FetchOk(i)
  \/ \E i \in DOMAIN reqs : FetchNotOk(i)
  \/ \E i \in DOMAIN reqs : FetchReject(i)
  \/ \E i \in DOMAIN reqs : JsonReject(i)
  \/ \E i \in DOMAIN reqs, data \in Responses : JsonOk(i, data)

InitSliderPage == InitSliders /\ IdleForm /\ IdleKeys

SpecSlider == InitSliderPage /\ [][NextSlider]_vars

\* Every promise the handler awaits settles: fetch resolves or rejects, and
\* resp.json() resolves or rejects.
FetchSettles == \E i \in DOMAIN reqs : FetchOk(i) \/ FetchNotOk(i) \/ FetchReject(i)
JsonSettles ==
  \E i \in DOMAIN reqs : JsonReject(i) \/ \E data \in Responses : JsonOk(i, data)

SpecSliderLive ==
  InitSliderPage /\ [][NextSlider]_vars /\ WF_vars(FetchSettles) /\ WF_vars(JsonSettles)

(***************************************************************************)
(* Properties of key resolution (SpecKey)                                  *)
(***************************************************************************)
\* C8: canonicalKey(canonicalKey(r)) = canonicalKey(r) for every raw key r;
\* canonicalKey(k) = k for every key k of LIMITS; a key that came out of the
\* synonym map is a key of LIMITS.
C8_ResolutionIdempotent ==
  /\ Len(canon) >= 2 => canon[2] = canon[1]
  /\ (canon # <<>> /\ \E i \in 1..Len(LIMITS) : LIMITS[i].key = raw) => canon[1] = raw
  /\ (canon # <<>> /\ canon[1] # normalizeKey(raw))
       => \E i \in 1..Len(LIMITS) : LIMITS[i].key = canon[1]

\* C8 witness: a label with capitals and a separator was resolved through the
\* synonym map, and resolving the result again gave the same key.
C8_Witness ==
  /\ raw = <<"c", "-", "P">>
  /\ canon = << <<"c", "h", "e", "s", "t", "p", "a", "i", "n", "t", "y", "p", "e">>,
               <<"c", "h", "e", "s", "t", "p", "a", "i", "n", "t", "y", "p", "e">> >>

(***************************************************************************)
(* Properties of the form                                                  *)
(***************************************************************************)
ErrorTexts(el) == {MsgRequired, MsgMin(el), MsgMax(el), MsgNumber, MsgInvalid}
EnabledInvalid(fs) == {f \in Fields : ~fs[f].disabled /\ fs[f].validity # {}}
FirstOf(S) == CHOOSE f \in S : \A g \in S : f <= g
OnlyActive(act, panel) == act = [p \in panels |-> p = panel]

\* C1: after any sequence of tab clicks, next clicks and submits exactly one
\* panel is active, also for a target identifier that matches no panel.
C1_ExactlyOnePanelActive ==
  Cardinality({p \in panels : active[p]}) = 1

\* C2: a submit validates the enabled fields in document order; with an
\* invalid field it is cancelled, the first invalid field shows its error,
\* the fields before it show none, the fields after it are untouched and
\* the panel of the first invalid field is the active one; with none it is
\* not cancelled and the active panel stays.
C2_SubmitShowsFirstInvalid ==
  [][last'.ev = "submit" =>
       LET bad == EnabledInvalid(fields) IN
       IF bad # {}
       THEN /\ last'.prevented
            /\ last'.field = FirstOf(bad)
            /\ OnlyActive(active', FieldPanel[FirstOf(bad)])
            /\ fields'[FirstOf(bad)].invalid
            /\ \A f \in Fields :
                  /\ (f < FirstOf(bad) /\ ~fields[f].disabled) => ~fields'[f].invalid
                  /\ f > FirstOf(bad) => fields'[f] = fields[f]
       ELSE /\ ~last'.prevented
            /\ active' = active
            /\ \A f \in Fields : ~fields[f].disabled => ~fields'[f].invalid]_vars

\* C2 witness: a cancelled submit moved the form from another panel to the
\* panel of the first invalid field.
C2_Witness ==
  /\ last.ev = "submit" /\ last.prevented
  /\ last.panel # NoPanel /\ last.panel # FieldPanel[last.field]
  /\ OnlyActive(active, FieldPanel[last.field])

\* C3: a next click changes the active panel, and then to the control's
\* target, only if every enabled field of the control's panel is valid; if
\* one is invalid the active panel stays and an invalid field of that panel
\* shows an error.
C3_NextOnlyWhenPanelValid ==
  [][last'.ev = "next" =>
       LET mine == {f \in Fields : FieldPanel[f] = last'.panel /\ ~fields[f].disabled}
           allValid == \A f \in mine : fields[f].validity = {}
       IN /\ active' # active => allValid
          /\ allValid => \A p \in panels : active'[p] <=> (p = last'.target)
          /\ ~allValid =>
                /\ active' = active
                /\ \E f \in mine :
                      /\ fields[f].validity # {}
                      /\ fields'[f].invalid
                      /\ fields'[f].hasSmall =>
                            /\ fields'[f].errorMessage
                            /\ fields'[f].innerText \in ErrorTexts(fields'[f])]_vars

\* C3 witness: a next click on a panel with an invalid field was refused.
C3_Witness ==
  /\ last.ev = "next" /\ ~last.ok
  /\ last.target # last.panel /\ active[last.panel]
  /\ fields[last.field].invalid

\* C6: after the smoker field changed to a value other than smoker (and after
\* initialization with such a value) the cigarettes field is disabled, not
\* required, empty and shows no error state; after a change to smoker it
\* is enabled and required.
C6_SmokerReconciled ==
  last.ev \in {"smoker", "init"} =>
    LET c == fields[cigsPerDayEl] IN
    IF fields[smokerStatusEl].value # "1"
    THEN /\ c.disabled /\ ~c.required /\ c.value = ""
         /\ ~c.invalid /\ ~c.errorMessage /\ c.innerText \notin ErrorTexts(c)
    ELSE ~c.disabled /\ c.required

C5_OutcomeByPrecedence ==
  [][(last'.ev = "validate" /\ ~fields[last'.field].disabled) =>
       LET before == fields[last'.field]
           after == fields'[last'.field]
           fl == before.validity
           shown(msg) == after.hasSmall => (after.innerText = msg /\ after.errorMessage)
       IN /\ last'.ok <=> fl = {}
          /\ after.invalid <=> fl # {}
          /\ "valueMissing" \in fl => shown(<<"This field is required.">>)
          /\ (before.required /\ before.value = "") => shown(<<"This field is required.">>)
          /\ ("rangeUnderflow" \in fl /\ "valueMissing" \notin fl)
                => shown(<<"Value must be at least ", FieldMin[last'.field], ".">>)
          /\ ("rangeOverflow" \in fl /\ fl \cap {"valueMissing", "rangeUnderflow"} = {})
                => shown(<<"Value cannot be more than ", FieldMax[last'.field], ".">>)
          /\ ("badInput" \in fl
                /\ fl \cap {"valueMissing", "rangeUnderflow", "rangeOverflow"} = {})
                => shown(<<"Please enter a valid number.">>)
          /\ fl = {"stepMismatch"} => shown(<<"The value you entered is invalid.">>)]_vars

\* C5 witness: a value below the minimum that also misses the step was
\* reported as below the minimum, with the minimum in the message.
C5_Witness ==
  /\ last.ev = "validate" /\ ~last.ok
  /\ LET el == fields[last.field] IN
       /\ ~el.disabled /\ el.validity = {"rangeUnderflow", "stepMismatch"}
       /\ el.invalid /\ el.errorMessage
       /\ el.innerText = <<"Value must be at least ", "0", ".">>

(***************************************************************************)
(* Properties of the results page, checked under SpecSlider                *)
(***************************************************************************)
\* Claim C7: every slider whose key resolves to a Limits entry has, after the
\* page-load normalization and after every completed input, change, deferred
\* wheel or server-correction handler, numeric bounds with
\* declared minimum <= value <= declared maximum, a value within the canonical
\* [min, max] of its entry, and a step that is a positive number.  A slider
\* whose deferred wheel update is still pending is not constrained.
C7_SlidersWithinLimits ==
  page.loaded =>
    \A i \in SliderIds \ raf :
      Resolved(sliders[i]) =>
        LET s == sliders[i]
            lim == LimitsOf(canonicalKey(FeatRaw(s)))
        IN /\ s.min.num /\ s.max.num /\ s.value.num
           /\ s.min.n <= s.value.n /\ s.value.n <= s.max.n
           /\ lim.min <= s.value.n /\ s.value.n <= lim.max
           /\ s.step.num /\ s.step.n > 0

C10_NoBaselineClickOnlyAlerts ==
  [][(~page.base /\ slast'.ev = "click") =>
       /\ slast'.alert
       /\ reqs' = reqs /\ reqs' = <<>>
       /\ btn' = [disabled |-> FALSE, textContent |-> "Update Prediction"]
       /\ page' = page
       /\ sliders' = sliders]_vars

\* C10 witness: the button was clicked on a loaded page without a baseline
\* after a slider had been moved; the alert is up, no request is in flight
\* and the button is enabled.
C10_Witness ==
  /\ page.loaded /\ ~page.base
  /\ slast = [ev |-> "click", alert |-> TRUE]
  /\ sliders[1].value = Num(2000)
  /\ sliders[2].value = Num(-50)
  /\ reqs = <<>>
  /\ ~btn.disabled /\ btn.textContent = "Update Prediction"

\* Claim C11: every update cycle that issued a request ends with the button
\* enabled and labelled "Update Prediction", whichever way the request ends;
\* the button is disabled exactly while a request is outstanding; and, every
\* awaited promise settling, a disabled button is eventually enabled again.
C11_ButtonReleasedAfterCycle ==
  /\ [](btn.disabled <=> reqs # <<>>)
  /\ [](btn.disabled => btn.textContent = "Updating...")
  /\ [][Len(reqs') < Len(reqs) =>
         btn' = [disabled |-> FALSE, textContent |-> "Update Prediction"]]_vars
  /\ (btn.disabled ~> ~btn.disabled)

\* C11 witness: a cycle ended by an exception raised while the page was being
\* patched (the result was written, the list emptied), and the button is
\* enabled again with no request left.
C11_Witness ==
  /\ slast = [ev |-> "threw", alert |-> TRUE]
  /\ page.base
  /\ page.result = "High"
  /\ page.suggestions = <<>>
  /\ btn = [disabled |-> FALSE, textContent |-> "Update Prediction"]
  /\ reqs = <<>>

\* Claim C12: when the response to an update request has a non-success
\* status, the cycle shows an alert and leaves the result text, the
\* suggestions list and every slider (value, bounds, readout) as they were
\* when the response arrived; the body is not read: the handler ends there.
C12_BadStatusOnlyAlerts ==
  [][(slast'.ev = "status" /\ reqs' # reqs) =>
       /\ slast'.alert
       /\ page' = page
       /\ sliders' = sliders
       /\ \A i \in DOMAIN reqs' : reqs'[i].pc # "json"
       /\ Len(reqs') = Len(reqs) - 1]_vars

\* C12 witness: after an earlier cycle had patched the result and a slider
\* had been moved during the request, a non-success status ended the cycle
\* with an alert and the patched result still shown.
C12_Witness ==
  /\ slast = [ev |-> "status", alert |-> TRUE]
  /\ page.result = "73.4%"
  /\ page.suggestions = <<"Exercise">>
  /\ sliders[2].value = Num(-50)
  /\ reqs = <<>>

\* Claim C13: a click reaching the button only while it is enabled, at most
\* one update request is in flight at any time: the step that issues a
\* request finds the button enabled and leaves it disabled, and the button
\* stays disabled for as long as the request is outstanding.
C13_AtMostOneRequest ==
  /\ [](Len(reqs) <= 1)
  /\ [](reqs # <<>> => btn.disabled)
  /\ [][Len(reqs') > Len(reqs) => (~btn.disabled /\ btn'.disabled)]_vars

\* C13 witness: while the one request waits for its body, a wheel event's
\* deferred update has run on a slider and the button is still disabled.
C13_Witness ==
  /\ reqs = <<[pc |-> "json"]>>
  /\ slast.ev = "frame"
  /\ btn = [disabled |-> TRUE, textContent |-> "Updating..."]

(***************************************************************************)
(* Further properties of the form, checked under Spec                      *)
(***************************************************************************)
\* Claim C14: showPanelById with a target that is the id of no panel is a
\* no-op: the active and hidden flags of every panel, the active and selected
\* state of every tab and the focus are the same after the call as before.
C14_UnknownTargetIsNoOp ==
  [][((last'.ev = "tab" \/ (last'.ev = "next" /\ last'.ok)) /\ last'.target \notin panels)
       => UNCHANGED <<active, ariaHidden, tabActive, tabSelected, focus>>]_vars

\* Claim C15: validatePanel(panel), run by the next button, returns true iff
\* every non-disabled field of the panel is valid, and after it every
\* non-disabled field of the panel shows the error state that matches its
\* own validity, the fields after the first invalid one included.
C15_PanelShowsEveryFieldsState ==
  [][last'.ev = "next" =>
       LET inPanel == {f \in Fields : FieldPanel[f] = last'.panel /\ ~fields[f].disabled}
       IN /\ last'.ok <=> \A f \in inPanel : fields[f].validity = {}
          /\ \A f \in inPanel : fields'[f].invalid <=> fields'[f].validity # {}]_vars

\* Claim C21: a click on a tab activates the tab's target panel without
\* validating anything: no field and no error state changes, whatever the
\* validity of the fields of the panel that is left; and the panels change
\* only by a tab click, by a next click whose panel validated, or by a
\* submit that found an invalid field.
C21_TabClickSkipsValidation ==
  [][/\ last'.ev = "tab" =>
          /\ fields' = fields
          /\ last'.target \in panels =>
                \A p \in panels : active'[p] <=> p = last'.target
     /\ active' # active =>
          \/ last'.ev = "tab"
          \/ last'.ev = "next" /\ last'.ok
          \/ last'.ev = "submit" /\ ~last'.ok]_vars

\* C21 witness: panel 2 was opened through the tab bar while the age field
\* of panel 1 is invalid and still shows the error of an earlier validation.
C21_Witness ==
  /\ last.ev = "tab" /\ last.target = 2
  /\ active[2] /\ ~active[1]
  /\ FieldPanel[1] = 1
  /\ fields[1].validity # {}
  /\ fields[1].invalid /\ fields[1].errorMessage

C18_SuccessNeverAlerts ==
  [][(Len(reqs') < Len(reqs) /\ slast'.ev \notin {"status", "rejected", "nojson"})
       => ~slast'.alert]_vars

\* Claim C19: when a successful response carries slider corrections, every
\* slider whose key in the modified mapping (feature tag, else id, else name)
\* is named by an entry ends with the entry's value normalized through
\* applyLimitsFromMap, shown in its readout; the other sliders keep their
\* values.
C19_NamedSlidersCorrected ==
  [][\A r \in DOMAIN reqs, data \in Responses :
       (JsonOk(r, data) /\ ~TipsThrow(data) /\ data.top_features_values.kind = "array") =>
         \A k \in SliderIds :
           LET items == data.top_features_values.items
               named == {j \in DOMAIN items : items[j].name = FeatRaw(sliders[k])}
               item == items[CHOOSE j \in named : \A h \in named : h <= j]
               lim == LimitsOf(canonicalKey(FeatRaw(sliders[k])))
           IN IF named = {} THEN sliders'[k].value = sliders[k].value
              ELSE /\ sliders'[k].value =
                        IF ~Resolved(sliders[k]) THEN item.value
                        ELSE IF ~item.value.num \/ item.value.n < lim.min THEN Num(lim.min)
                        ELSE IF item.value.n > lim.max THEN Num(lim.max)
                        ELSE item.value
                   /\ sliders[k].readout # "none" => sliders'[k].span = sliders'[k].value]_vars

C17_LatestVerdictShown ==
  \A f \in TestFields :
    (last.ev = "validate" /\ last.field = f /\ ~fields[f].disabled /\ fields[f].hasSmall) =>
      LET el == fields[f] IN
      IF last.ok
      THEN /\ ~el.invalid
           /\ ~el.errorMessage
           /\ el.innerText \in Hints
      ELSE /\ el.invalid
           /\ el.errorMessage
           /\ el.innerText =
                IF "valueMissing" \in el.validity THEN <<"This field is required.">>
                ELSE IF "rangeUnderflow" \in el.validity
                THEN <<"Value must be at least ", FieldMin[f], ".">>
                ELSE IF "rangeOverflow" \in el.validity
                THEN <<"Value cannot be more than ", FieldMax[f], ".">>
                ELSE IF "badInput" \in el.validity THEN <<"Please enter a valid number.">>
                ELSE <<"The value you entered is invalid.">>
====
